---- MODULE Spec2Model ----
(***************************************************************************)
(* The tabs component of ant-design-vue (components/tabs/src): the tab    *)
(* normalizer parseTabList, the active-key reconciliation of InternalTabs, *)
(* the derived presentation state and the click / edit event bridge.       *)
(***************************************************************************)
EXTENDS Integers, Sequences, FiniteSets, TLC

(***************************************************************************)
(* JavaScript values.  A value is a record [t, v, fields]: t is its typeof, *)
(* v its textual form, fields the own properties of an object literal, so  *)
(* that === is equality of the records and String() is a real conversion.  *)
(***************************************************************************)
\* the object with no property
EmptyObj == <<>>

Prim(t, v) == [t |-> t, v |-> v, fields |-> EmptyObj]
Undefined == Prim("undefined", "undefined")
Null == Prim("object", "null")
JsTrue == Prim("boolean", "true")
JsFalse == Prim("boolean", "false")
Str(s) == Prim("string", s)
Num(s) == Prim("number", s)
EmptyStr == Str("")
VNode(id) == Prim("vnode", id)
Event(name) == Prim("event", name)
Obj(fields) == [t |-> "object", v |-> "[object Object]", fields |-> fields]

\* o[n], undefined for a property o does not have
Get(o, n) == IF n \in DOMAIN o THEN o[n] ELSE Undefined

\* { ...a, ...b }
Spread(a, b) ==
  [n \in (DOMAIN a) \cup (DOMAIN b) |-> IF n \in DOMAIN b THEN b[n] ELSE a[n]]

\* delete o[n]
Delete(o, n) == [m \in (DOMAIN o) \ {n} |-> o[m]]

\* String(x)
String(x) == Str(x.v)

\* x === y as a JavaScript boolean
StrictEq(x, y) == IF x = y THEN JsTrue ELSE JsFalse

\* a || b
Truthy(x) == x \notin {Undefined, Null, JsFalse, EmptyStr, Num("0")}
Or(a, b) == IF Truthy(a) THEN a ELSE b

(***************************************************************************)
(* parseTabList.  A child is [id, valid, key, props, slots]: valid is the  *)
(* verdict of isValidElement, props the ordered entries <<name, value>> of *)
(* node.props (names distinct), slots the object node.children.            *)
(***************************************************************************)
isValidElement(node) == node.valid

\* camelize on the attribute names that occur
camelize(k) ==
  CASE k = "force-render" -> "forceRender"
    [] k = "destroy-inactive-tab-pane" -> "destroyInactiveTabPane"
    [] OTHER -> k

\* Object.entries order is kept by the sequence; as an object the entries are
\* a function
RECURSIVE EntriesToObj(_)
EntriesToObj(es) ==
  IF es = <<>> THEN EmptyObj
  ELSE Spread(EntriesToObj(SubSeq(es, 1, Len(es) - 1)),
              es[Len(es)][1] :> es[Len(es)][2])

\* for (const [k, v] of Object.entries(props)) { delete props[k]; props[camelize(k)] = v }
RECURSIVE CamelizeLoop(_, _)
CamelizeLoop(props, es) ==
  IF es = <<>> THEN props
  ELSE CamelizeLoop(Spread(Delete(props, es[1][1]), camelize(es[1][1]) :> es[1][2]),
                    Tail(es))

CamelProps(node) == CamelizeLoop(EntriesToObj(node.props), node.props)

EmptyAsTruePassThrough(x) == x

\* disabled === '' || disabled
EmptyAsTrue(x) == Or(StrictEq(x, EmptyStr), x)

\* the record parseTabList returns for a valid element
TabOf(node) ==
  LET props == CamelProps(node)
      slots == node.slots
      key == IF node.key # Undefined THEN String(node.key) ELSE Undefined
      tab == IF Get(props, "tab") = Undefined THEN Get(slots, "tab") ELSE Get(props, "tab")
  IN  Spread(Spread("key" :> key, props),
        [node |-> VNode(node.id),
         closeIcon |-> Get(slots, "closeIcon"),
         tab |-> tab,
         disabled |-> EmptyAsTrue(Get(props, "disabled")),
         forceRender |-> EmptyAsTrue(Get(props, "forceRender")),
         closable |-> EmptyAsTrue(Get(props, "closable")),
         animated |-> EmptyAsTrue(Get(props, "animated")),
         active |-> EmptyAsTrue(Get(props, "active")),
         destroyInactiveTabPane |-> EmptyAsTrue(Get(props, "destroyInactiveTabPane"))])

\* children.map(...).filter(tab => tab)
parseTabList(children) ==
  LET mapped == [i \in 1..Len(children) |->
                   IF isValidElement(children[i]) THEN TabOf(children[i]) ELSE Null]
  IN  SelectSeq(mapped, LAMBDA tab : tab # Null)

(***************************************************************************)
(* Bounds and input sets                                                   *)
(***************************************************************************)
MaxChildren == 2
MaxClicks == 2
MaxParseChildren == 2
MaxAttrs == 2

Positions == {Str("left"), Str("right"), Str("top"), Str("bottom")}
AnimatedFlags == {"inkBar", "tabPane"}
AnimatedValues ==
  {Undefined, JsFalse, JsTrue, Null, Str("x")}
  \cup {Obj(f) : f \in UNION {[S -> {JsTrue, JsFalse, Undefined}] : S \in SUBSET AnimatedFlags}}
Types == {Undefined, Str("line"), Str("card"), Str("editable-card")}
Events == {Event("click"), Event("keydown")}

SeqsUpTo(S, n) == UNION {[1..m -> S] : m \in 0..n}
Max(a, b) == IF a >= b THEN a ELSE b
Min(a, b) == IF a <= b THEN a ELSE b

\* a tab pane with a key and no attribute, and a text node
Pane(k) == [id |-> k, valid |-> TRUE, key |-> Str(k), props |-> <<>>, slots |-> EmptyObj]
TextNode == [id |-> "text", valid |-> FALSE, key |-> Null, props |-> <<>>, slots |-> EmptyObj]
SelKeys == {"a", "b", "c"}
SelNodes == {Pane(k) : k \in SelKeys}

\* child lists of the selection model: no tab pane occurs twice (keys are unique)
SelLists ==
  {c \in SeqsUpTo(SelNodes, MaxChildren) :
     \A i, j \in 1..Len(c) : i # j => c[i] # c[j]}

\* the normalizer's inputs: lists over one element with up to MaxAttrs declared
\* attributes, one bare tab pane and one text node
AttrNames == {"disabled", "closable", "force-render", "forceRender", "active"}
AttrValues == {EmptyStr, JsFalse, Str("x")}
AttrEntries ==
  {es \in SeqsUpTo(AttrNames \X AttrValues, MaxAttrs) :
     \A i, j \in 1..Len(es) : i # j => es[i][1] # es[j][1]}
Element(es) ==
  [id |-> "w", valid |-> TRUE, key |-> Num("1"), props |-> es, slots |-> EmptyObj]
ParseLists ==
  UNION {SeqsUpTo({Element(es), Pane("b"), TextNode}, MaxParseChildren) :
           es \in AttrEntries}

RemoveAt(s, i) == SubSeq(s, 1, i - 1) \o SubSeq(s, i + 1, Len(s))

\* "z" is the key of no tab
ActiveKeys == {Undefined, Str("a"), Str("b"), Str("z")}

(***************************************************************************)
(* State                                                                   *)
(***************************************************************************)
VARIABLES
  pc,               \* "render", "setup" (after line 220), "created", "mounted"
  children,         \* flattenChildren(slots.default?.()) of ATabs
  tabs,             \* props.tabs of InternalTabs
  activeKey,        \* props.activeKey
  defaultActiveKey, \* props.defaultActiveKey
  innerValue,       \* the internal value of useMergedState
  activeIndex,      \* activeIndex
  mobile,           \* mobile
  device,           \* what isMobile() answers on this device
  tabPosition,      \* props.tabPosition
  type,             \* props.type
  animated,         \* props.animated
  onTabClick,       \* whether props.onTabClick is supplied
  onEdit,           \* whether props.onEdit is supplied
  calls,            \* handler calls and emits made by the last operation, in order
  op,               \* the last operation and its inputs; a tab-list change also
                    \* records the active key, its index in the list and the
                    \* internal value it found
  nClicks,          \* tab clicks so far
  nChanges          \* calls of props.onChange so far

vars == <<pc, children, tabs, activeKey, defaultActiveKey, innerValue, activeIndex,
          mobile, device, tabPosition, type, animated, onTabClick, onEdit, calls, op,
          nClicks, nChanges>>

selVars == <<activeKey, innerValue, activeIndex>>
presVars == <<tabPosition, type, animated>>
handlerVars == <<onTabClick, onEdit, device>>
countVars == <<nClicks, nChanges>>

(***************************************************************************)
(* Props defaults (initDefaultProps)                                       *)
(***************************************************************************)
DefaultAnimated == Obj([inkBar |-> JsTrue, tabPane |-> JsFalse])
DefaultTabPosition == Str("top")
initDefaultProps(v, d) == IF v = Undefined THEN d ELSE v

(***************************************************************************)
(* Active key                                                              *)
(***************************************************************************)
\* useMergedState: the controlled value wins, else the internal value
useMergedStateValue(value, inner) == IF value # Undefined THEN value ELSE inner

\* useMergedState: the internal value starts as defaultValue, else as the
\* default state
useMergedStateInit(defaultStateValue, defaultValue) ==
  IF defaultValue # Undefined THEN defaultValue ELSE defaultStateValue

\* props.tabs[i]?.key, i counted from 0
KeyAt(ts, i) == IF i >= 0 /\ i < Len(ts) THEN ts[i + 1]["key"] ELSE Undefined

\* props.tabs.findIndex(tab => tab.key === k)
findIndex(ts, k) ==
  IF \E i \in 1..Len(ts) : ts[i]["key"] = k
  THEN (CHOOSE i \in 1..Len(ts) :
          /\ ts[i]["key"] = k
          /\ \A j \in 1..(i - 1) : ts[j]["key"] # k) - 1
  ELSE -1

InitialInnerSwapped(ts, dak) == useMergedStateInit(dak, KeyAt(ts, 0))

\* useMergedState(() => props.tabs[0]?.key, {value, defaultValue: props.defaultActiveKey})
InitialInner(ts, dak) == useMergedStateInit(KeyAt(ts, 0), dak)

mergedActiveKey(ak, inner) == useMergedStateValue(ak, inner)

\* the watchEffect of lines 222-229: set says whether setMergedActiveKey is
\* called, key with what, calls the handlers it calls
watchEffectNoClamp(ts, merged, idx) ==
  LET found == findIndex(ts, merged)
      newActiveIndex == IF found = -1 THEN Min(idx, Len(ts) - 1) ELSE found
  IN  [set |-> found = -1, key |-> KeyAt(ts, newActiveIndex),
       activeIndex |-> newActiveIndex, calls |-> <<>>]

watchEffectFirst(ts, merged, idx) ==
  LET found == findIndex(ts, merged)
      newActiveIndex == IF found = -1 THEN 0 ELSE found
  IN  [set |-> found = -1, key |-> KeyAt(ts, newActiveIndex),
       activeIndex |-> newActiveIndex, calls |-> <<>>]

watchEffectKeepsIndex(ts, merged, idx) ==
  LET found == findIndex(ts, merged)
      newActiveIndex == IF found = -1 THEN Max(0, Min(idx, Len(ts) - 1)) ELSE found
  IN  [set |-> found = -1, key |-> KeyAt(ts, newActiveIndex),
       activeIndex |-> IF found = -1 THEN newActiveIndex ELSE idx, calls |-> <<>>]

watchEffectNotifies(ts, merged, idx) ==
  LET found == findIndex(ts, merged)
      newActiveIndex == IF found = -1 THEN Max(0, Min(idx, Len(ts) - 1)) ELSE found
  IN  [set |-> found = -1, key |-> KeyAt(ts, newActiveIndex),
       activeIndex |-> newActiveIndex,
       calls |-> IF found = -1 THEN <<<<"onChange", KeyAt(ts, newActiveIndex)>>>> ELSE <<>>]

watchEffect(ts, merged, idx) ==
  LET found == findIndex(ts, merged)
      newActiveIndex == IF found = -1 THEN Max(0, Min(idx, Len(ts) - 1)) ELSE found
  IN  [set |-> found = -1, key |-> KeyAt(ts, newActiveIndex),
       activeIndex |-> newActiveIndex, calls |-> <<>>]

(***************************************************************************)
(* Presentation                                                            *)
(***************************************************************************)
mergedAnimatedNoMerge(a) ==
  IF a = JsFalse THEN [inkBar |-> JsFalse, tabPane |-> JsFalse]
  ELSE IF a = JsTrue THEN [inkBar |-> JsTrue, tabPane |-> JsTrue]
  ELSE IF a.t = "object" THEN a.fields
  ELSE [inkBar |-> JsTrue, tabPane |-> JsFalse]

mergedAnimated(a) ==
  IF a = JsFalse THEN [inkBar |-> JsFalse, tabPane |-> JsFalse]
  ELSE IF a = JsTrue THEN [inkBar |-> JsTrue, tabPane |-> JsTrue]
  ELSE Spread([inkBar |-> JsTrue, tabPane |-> JsFalse],
              IF a.t = "object" THEN a.fields ELSE EmptyObj)

mergedTabPositionAlwaysTop(mob, pos) ==
  IF mob THEN Str("top") ELSE pos

mergedTabPosition(mob, pos) ==
  IF mob /\ pos \notin {Str("left"), Str("right")} THEN Str("top") ELSE pos

\* sharedProps of the render function
sharedProps ==
  [activeKey |-> mergedActiveKey(activeKey, innerValue),
   animated |-> mergedAnimated(animated),
   tabPosition |-> mergedTabPosition(mobile, tabPosition),
   mobile |-> mobile]

(***************************************************************************)
(* Events                                                                  *)
(***************************************************************************)
\* handleChange of ATabs
handleChange(key) == << <<"update:activeKey", key>>, <<"change", key>> >>

onInternalTabClickChangeFirst(key, hasOnTabClick) ==
  << <<"setMergedActiveKey", key>>, <<"onChange", key>> >> \o handleChange(key)
  \o (IF hasOnTabClick THEN << <<"onTabClick", key>> >> ELSE <<>>)

\* onInternalTabClick: what it calls, in order
onInternalTabClick(key, hasOnTabClick) ==
  (IF hasOnTabClick THEN << <<"onTabClick", key>> >> ELSE <<>>)
  \o << <<"setMergedActiveKey", key>>, <<"onChange", key>> >> \o handleChange(key)

\* whether the render function builds the editable configuration
editable(ty) == ty = Str("editable-card")

editableOnEditSwapped(editType, key, event, hasOnEdit) ==
  IF hasOnEdit
  THEN << <<"onEdit", IF editType = "add" THEN key ELSE event, editType>> >>
  ELSE <<>>

\* editable.onEdit: props.onEdit?.(editType === 'add' ? event : key!, editType)
editableOnEdit(editType, key, event, hasOnEdit) ==
  IF hasOnEdit
  THEN << <<"onEdit", IF editType = "add" THEN event ELSE key, editType>> >>
  ELSE <<>>

CountCalls(cs, name) == Cardinality({i \in 1..Len(cs) : cs[i][1] = name})

(***************************************************************************)
(* Initial states: ATabs is set up and has not rendered yet.               *)
(***************************************************************************)
InitWith(lists, aks, daks, positions, types, animateds, clicks, edits, devices) ==
  /\ pc = "render"
  /\ children \in lists
  /\ tabs = <<>>
  /\ activeKey \in aks
  /\ defaultActiveKey \in daks
  /\ innerValue = Undefined
  /\ activeIndex = -1
  /\ mobile = FALSE
  /\ device \in devices
  /\ tabPosition \in {initDefaultProps(p, DefaultTabPosition) : p \in positions}
  /\ type \in types
  /\ animated \in {initDefaultProps(a, DefaultAnimated) : a \in animateds}
  /\ onTabClick \in clicks
  /\ onEdit \in edits
  /\ calls = <<>>
  /\ op = <<"init">>
  /\ nClicks = 0
  /\ nChanges = 0

\* the watchEffect runs on the state ts, ak, inner that the operation leaves;
\* before are the calls the operation made itself
Reconcile(ts, ak, inner, before) ==
  LET r == watchEffect(ts, mergedActiveKey(ak, inner), activeIndex)
  IN  /\ innerValue' = IF r.set THEN r.key ELSE inner
      /\ activeIndex' = r.activeIndex
      /\ calls' = before \o r.calls
      /\ nChanges' = nChanges + CountCalls(before \o r.calls, "onChange")

\* the operation leaves the watchEffect's dependencies (props.tabs,
\* mergedActiveKey) as they were: it does not run again
NoReconcile(inner, before) ==
  /\ innerValue' = inner
  /\ activeIndex' = activeIndex
  /\ calls' = before
  /\ nChanges' = nChanges + CountCalls(before, "onChange")

\* the first render of ATabs parses the children and sets up InternalTabs, up
\* to the useState of activeIndex
Render ==
  /\ pc = "render"
  /\ pc' = "setup"
  /\ tabs' = parseTabList(children)
  /\ innerValue' = InitialInner(tabs', defaultActiveKey)
  /\ activeIndex' = findIndex(tabs', mergedActiveKey(activeKey, innerValue'))
  /\ calls' = <<>>
  /\ op' = <<"Render">>
  /\ UNCHANGED <<children, activeKey, defaultActiveKey, mobile, presVars, handlerVars,
                 countVars>>

\* the first run of the watchEffect, inside setup
SetupWatchEffect ==
  /\ pc = "setup"
  /\ pc' = "created"
  /\ Reconcile(tabs, activeKey, innerValue, <<>>)
  /\ op' = <<"SetupWatchEffect">>
  /\ UNCHANGED <<children, tabs, activeKey, defaultActiveKey, mobile, presVars,
                 handlerVars, nClicks>>

\* onMounted: setMobile(isMobile())
Mount ==
  /\ pc = "created"
  /\ pc' = "mounted"
  /\ mobile' = device
  /\ calls' = <<>>
  /\ op' = <<"Mount">>
  /\ UNCHANGED <<children, tabs, defaultActiveKey, selVars, presVars, handlerVars,
                 countVars>>

\* a click on the tab with key k in the navigation list
TabClick(k) ==
  /\ pc = "mounted"
  /\ nClicks < MaxClicks
  /\ \E i \in 1..Len(tabs) : tabs[i]["key"] = k
  /\ IF mergedActiveKey(activeKey, k) # mergedActiveKey(activeKey, innerValue)
     THEN Reconcile(tabs, activeKey, k, onInternalTabClick(k, onTabClick))
     ELSE NoReconcile(k, onInternalTabClick(k, onTabClick))
  /\ nClicks' = nClicks + 1
  /\ op' = <<"TabClick", k>>
  /\ UNCHANGED <<pc, children, tabs, activeKey, defaultActiveKey, mobile, presVars,
                 handlerVars>>

\* ATabs renders with other children
SetChildren(c) ==
  /\ pc = "mounted"
  /\ c # children
  /\ children' = c
  /\ tabs' = parseTabList(c)
  /\ Reconcile(tabs', activeKey, innerValue, <<>>)
  /\ op' = <<"SetChildren", mergedActiveKey(activeKey, innerValue),
             findIndex(tabs, mergedActiveKey(activeKey, innerValue)), innerValue>>
  /\ UNCHANGED <<pc, activeKey, defaultActiveKey, mobile, presVars, handlerVars,
                 nClicks>>

\* the parent sets the activeKey prop; whether useMergedState then also
\* overwrites its internal value is left open
SetActiveKey(v) ==
  /\ pc = "mounted"
  /\ v # activeKey
  /\ activeKey' = v
  /\ \E sync \in BOOLEAN :
       Reconcile(tabs, v, IF sync THEN v ELSE innerValue, <<>>)
  /\ op' = <<"SetActiveKey", v>>
  /\ UNCHANGED <<pc, children, tabs, defaultActiveKey, mobile, presVars, handlerVars,
                 nClicks>>

SetTabPosition(p) ==
  /\ pc = "mounted"
  /\ tabPosition' = initDefaultProps(p, DefaultTabPosition)
  /\ tabPosition' # tabPosition
  /\ calls' = <<>>
  /\ op' = <<"SetTabPosition">>
  /\ UNCHANGED <<pc, children, tabs, defaultActiveKey, selVars, mobile, type, animated,
                 handlerVars, countVars>>

SetType(ty) ==
  /\ pc = "mounted"
  /\ ty # type
  /\ type' = ty
  /\ calls' = <<>>
  /\ op' = <<"SetType">>
  /\ UNCHANGED <<pc, children, tabs, defaultActiveKey, selVars, mobile, tabPosition,
                 animated, handlerVars, countVars>>

SetAnimated(a) ==
  /\ pc = "mounted"
  /\ animated' = initDefaultProps(a, DefaultAnimated)
  /\ animated' # animated
  /\ calls' = <<>>
  /\ op' = <<"SetAnimated">>
  /\ UNCHANGED <<pc, children, tabs, defaultActiveKey, selVars, mobile, tabPosition,
                 type, handlerVars, countVars>>

\* the navigation list calls editable.onEdit(editType, {key, event}): the add
\* button passes no key, the remove button of a tab passes the tab's key
Edit(editType, key, event) ==
  /\ pc = "mounted"
  /\ editable(type)
  /\ \/ editType = "add" /\ key = Undefined
     \/ editType = "remove" /\ \E i \in 1..Len(tabs) : tabs[i]["key"] = key
  /\ calls' = editableOnEdit(editType, key, event, onEdit)
  /\ op' = <<"Edit", editType, key, event>>
  /\ UNCHANGED <<pc, children, tabs, defaultActiveKey, selVars, mobile, presVars,
                 handlerVars, countVars>>

(***************************************************************************)
(* Spec: selection (tab list changes, clicks, external activeKey)          *)
(***************************************************************************)
Init == InitWith(SelLists, ActiveKeys, {Undefined, Str("b"), Str("z")},
                 {Undefined}, {Undefined}, {Undefined}, BOOLEAN, {FALSE}, {FALSE})

Next ==
  \/ Render
  \/ SetupWatchEffect
  \/ Mount
  \/ \E k \in {Str(k) : k \in SelKeys} : TabClick(k)
  \/ \E c \in SelLists : SetChildren(c)
  \/ \E v \in ActiveKeys : SetActiveKey(v)

Spec == Init /\ [][Next]_vars

(***************************************************************************)
(* SpecPresentation: presentation props and edit actions                   *)
(***************************************************************************)
InitPresentation ==
  InitWith({<<Pane("a"), Pane("b")>>}, {Undefined}, {Undefined},
           Positions \cup {Undefined}, Types, AnimatedValues, {FALSE}, BOOLEAN, BOOLEAN)

NextPresentation ==
  \/ Render
  \/ SetupWatchEffect
  \/ Mount
  \/ \E p \in Positions \cup {Undefined} : SetTabPosition(p)
  \/ \E ty \in Types : SetType(ty)
  \/ \E a \in AnimatedValues : SetAnimated(a)
  \/ \E editType \in {"add", "remove"}, key \in {Undefined, Str("a"), Str("b")},
        event \in Events : Edit(editType, key, event)

SpecPresentation == InitPresentation /\ [][NextPresentation]_vars

(***************************************************************************)
(* SpecParse: the normalizer on children with declared attributes          *)
(***************************************************************************)
InitParse ==
  InitWith(ParseLists, {Undefined}, {Undefined}, {Undefined}, {Undefined}, {Undefined},
           {FALSE}, {FALSE}, {FALSE})

NextParse ==
  \/ Render
  \/ SetupWatchEffect
  \/ Mount
  \/ \E i \in 1..Len(children) : SetChildren(RemoveAt(children, i))

SpecParse == InitParse /\ [][NextParse]_vars

(***************************************************************************)
(* Properties                                                              *)
(***************************************************************************)
TabKeys(ts) == {ts[i]["key"] : i \in 1..Len(ts)}
Reconciled == pc \in {"created", "mounted"}
Uncontrolled == activeKey = Undefined

\* the last operation changed the tab list and the tab that was active is gone
ActiveTabRemoved ==
  /\ op[1] = "SetChildren"
  /\ op[3] # -1
  /\ op[2] \notin TabKeys(tabs)

\* the last operation changed the tab list and the tab that was active is kept
ActiveTabKept ==
  /\ op[1] = "SetChildren"
  /\ op[3] # -1
  /\ op[2] \in TabKeys(tabs)

\* C1: when the active tab is removed from the list and the selection is
\* uncontrolled, the active key becomes the key at index
\* max(0, min(previous index of the active tab, new length - 1)) of the new
\* list (unset when the new list is empty).
C1_RemovedActiveClamped ==
  (ActiveTabRemoved /\ Uncontrolled) =>
     LET i == Max(0, Min(op[3], Len(tabs) - 1))
     IN  sharedProps.activeKey = IF tabs = <<>> THEN Undefined ELSE tabs[i + 1]["key"]

\* a removal after which the previous index is still inside the list
C1_Witness ==
  /\ ActiveTabRemoved /\ Uncontrolled
  /\ op[3] = 1
  /\ Len(tabs) = 2

\* C2 as stated: once reconciliation has run, the active key passed to the
\* renderers is the key of a tab of the list, or unset when the list is empty.
C2_ActiveKeyInList ==
  Reconciled =>
     \/ sharedProps.activeKey \in TabKeys(tabs)
     \/ tabs = <<>> /\ sharedProps.activeKey = Undefined

\* C2 amended: when the activeKey prop is not supplied, once reconciliation
\* has run the active key passed to the renderers is the key of a tab of the
\* list, or unset when the list is empty.
C2_UncontrolledActiveKeyInList ==
  (Reconciled /\ Uncontrolled) =>
     \/ sharedProps.activeKey \in TabKeys(tabs)
     \/ tabs = <<>> /\ sharedProps.activeKey = Undefined

\* the default key names no tab and reconciliation has replaced it
C2_Witness ==
  /\ Reconciled /\ Uncontrolled
  /\ defaultActiveKey = Str("z")
  /\ op[1] = "SetupWatchEffect"
  /\ tabs # <<>>

C4_ClickCalls ==
  op[1] = "TabClick" =>
     /\ calls = (IF onTabClick THEN << <<"onTabClick", op[2]>> >> ELSE <<>>)
                \o << <<"setMergedActiveKey", op[2]>>, <<"onChange", op[2]>>,
                      <<"update:activeKey", op[2]>>, <<"change", op[2]>> >>
     /\ innerValue = op[2]
     /\ Uncontrolled => sharedProps.activeKey = op[2]

C4_Witness ==
  /\ op[1] = "TabClick"
  /\ onTabClick
  /\ Len(calls) = 5
  /\ Uncontrolled

\* C5: a tab-list change that keeps the active tab in the list leaves the
\* active key (and the internal value) unchanged, calls no handler, and sets
\* the stored index to the tab's position in the new list.
C5_KeptActiveUnchanged ==
  ActiveTabKept =>
     /\ sharedProps.activeKey = op[2]
     /\ innerValue = op[4]
     /\ calls = <<>>
     /\ activeIndex >= 0 /\ activeIndex < Len(tabs)
     /\ tabs[activeIndex + 1]["key"] = op[2]

\* the active tab moved to another position
C5_Witness ==
  /\ ActiveTabKept
  /\ activeIndex # op[3]

\* C10: only clicks notify: onChange has been called once per click, and a
\* tab-list change, an external activeKey update or the setup calls nothing,
\* also when it reassigns the active key.
C10_OnlyClicksNotify ==
  /\ nChanges = nClicks
  /\ op[1] \in {"Render", "SetupWatchEffect", "SetChildren", "SetActiveKey"} => calls = <<>>

\* the active tab was removed after a click and the key was reassigned
C10_Witness ==
  /\ ActiveTabRemoved /\ Uncontrolled
  /\ tabs # <<>>
  /\ sharedProps.activeKey # op[2]
  /\ nClicks = 1

\* C6: in the editable-card variant an edit action calls onEdit once, with
\* the action as second argument and as first argument the event for "add"
\* and the tab's key for "remove" (nothing when no onEdit is supplied); in
\* any other variant there is no editable configuration and onEdit is not
\* called.
C6_EditForwarded ==
  /\ op[1] = "Edit" =>
        calls = IF onEdit
                THEN << <<"onEdit", IF op[2] = "add" THEN op[4] ELSE op[3], op[2]>> >>
                ELSE <<>>
  /\ type # Str("editable-card") => ~editable(type)
  /\ CountCalls(calls, "onEdit") > 0 => type = Str("editable-card")

C6_Witness ==
  /\ op[1] = "Edit"
  /\ op[2] = "remove"
  /\ onEdit
  /\ calls # <<>>

\* C7: the animation configuration is {inkBar: false, tabPane: false} for
\* animated = false, both true for animated = true, for an object its
\* fields over the defaults {inkBar: true, tabPane: false} field by field,
\* and the defaults for any other value.
C7_MergedAnimated ==
  LET r == sharedProps.animated
      isObject == animated.t = "object" /\ animated # Null
  IN  /\ animated = JsFalse => r = [inkBar |-> JsFalse, tabPane |-> JsFalse]
      /\ animated = JsTrue => r = [inkBar |-> JsTrue, tabPane |-> JsTrue]
      /\ isObject =>
            /\ DOMAIN r = AnimatedFlags
            /\ r["inkBar"] = IF "inkBar" \in DOMAIN animated.fields
                             THEN animated.fields["inkBar"] ELSE JsTrue
            /\ r["tabPane"] = IF "tabPane" \in DOMAIN animated.fields
                              THEN animated.fields["tabPane"] ELSE JsFalse
      /\ (animated \notin {JsFalse, JsTrue} /\ ~isObject) =>
            r = [inkBar |-> JsTrue, tabPane |-> JsFalse]

\* an object that sets one flag only
C7_Witness ==
  /\ op[1] = "SetAnimated"
  /\ animated = Obj([tabPane |-> JsTrue])

\* C8: with the mobile flag on, the effective position is top unless
\* tabPosition is left or right, which are kept; with the flag off it is
\* tabPosition.  The flag is false before the mount and is what device
\* detection answered from the mount on.
C8_MobilePosition ==
  /\ mobile =>
        sharedProps.tabPosition =
          IF tabPosition \in {Str("left"), Str("right")} THEN tabPosition ELSE Str("top")
  /\ ~mobile => sharedProps.tabPosition = tabPosition
  /\ pc # "mounted" => mobile = FALSE
  /\ pc = "mounted" => mobile = device

C8_Witness ==
  /\ mobile
  /\ op[1] = "SetTabPosition"
  /\ tabPosition = Str("bottom")

\* the value declared last for the attribute whose camel-case name is n
RECURSIVE Declared(_, _)
Declared(es, n) ==
  IF es = <<>> THEN Undefined
  ELSE IF camelize(es[Len(es)][1]) = n THEN es[Len(es)][2]
  ELSE Declared(SubSeq(es, 1, Len(es) - 1), n)

\* C9: the tab list has one record per valid child element, in the order of
\* the children, and none for the other nodes; in each record disabled,
\* closable, forceRender and active are true when declared as the empty
\* string and the declared value otherwise.
C9_ParseTabList ==
  pc # "render" =>
     LET elements == SelectSeq(children, LAMBDA node : node.valid)
     IN  /\ Len(tabs) = Len(elements)
         /\ \A i \in 1..Len(tabs) :
              /\ tabs[i]["node"] = VNode(elements[i].id)
              /\ \A n \in {"disabled", "closable", "forceRender", "active"} :
                   LET v == Declared(elements[i].props, n)
                   IN  tabs[i][n] = IF v = EmptyStr THEN JsTrue ELSE v

\* a text node is dropped in front of an element that declares force-render=""
C9_Witness ==
  /\ pc # "render"
  /\ Len(children) = 2 /\ Len(tabs) = 1
  /\ ~children[1].valid
  /\ tabs[1]["forceRender"] = JsTrue
  /\ tabs[1]["disabled"] = JsFalse
====
